---- MODULE Spec2Model ----
(***************************************************************************)
(* Token-metrics pipeline of the token dashboard (hooks/useTokenData,      *)
(* utils/tokenUtils, constants/networks): endpoint failover, descriptor    *)
(* fetch, chunked log scan, block-timestamp resolution and large-transfer  *)
(* classification, written as a state machine whose steps are the awaits   *)
(* of the asynchronous code.                                               *)
(***************************************************************************)
EXTENDS Integers, Sequences, FiniteSets, TLC

VARIABLES
  \* ---- classifier harness (pure functions applied to drawn arguments)
  args,                     \* [value, totalSupply]: the two string arguments
  ret,                      \* results of the two classifiers, or NoRet
  \* ---- market-metrics harness (pure functions applied to drawn arguments)
  margs,                    \* [marketCap, fullyDilutedCap, transfers, tokenInfo, price]
  mret,                     \* [difference, sales]: results of the two functions, or not called
  \* ---- the data service: the chain behind the endpoints
  chain,                    \* [head, logs, hasCode]: head block number, Transfer logs of
                            \* the token, whether tokenAddress holds contract code
  faulty,                   \* the JSON-RPC methods the service may fail or stall on
  \* ---- process-wide state of hooks/useTokenData
  lastSuccessfulRpcByChain, \* chain id -> url, NoUrl when no entry
  blockCache,               \* block number -> block, as a function on the cached keys
  \* ---- one run of fetchTokenData
  pc,                       \* position of the run (the await it is suspended at)
  chainId,                  \* argument chainId
  priceUsd,                 \* argument priceUsd
  attempt,                  \* connection attempt of fetchTokenData (1..maxAttempts)
  rpcUrls,                  \* candidate list of the running tryConnectToNetwork call
  idx,                      \* loop index i of tryConnectToNetwork (0-based)
  probes,                   \* per call of tryConnectToNetwork: the probes made, in order
  backoffs,                 \* number of 1000 ms waits taken by the run
  provider,                 \* url of the connected provider, NoUrl before
  tokenInfo,                \* descriptor being built by getTokenInfo
  elapsed,                  \* ms of the 15000 ms budget of getTokenInfo spent in timeouts
  marketData,               \* NoMarketData or the market figures
  currentBlock,             \* head block number read by the run
  chunkStart,               \* loop variable of the chunk loop
  chunks,                   \* the chunks queried so far, [from, to] each, in order
  allEvents,                \* accumulator of the chunk loop
  abandoned,                \* chunk queries whose timer fired and that the service has
                            \* not answered yet
  tasks,                    \* running getBlockWithRetries calls: block number -> call state
  batchAt,                  \* loop variable i of the pre-fetch loop
  evIdx,                    \* position of the conversion loop in events (1-based)
  transfers,                \* transfers built by processTransferEvents
  resolutions,              \* every settled getBlockWithRetries call: block, result, remote calls made
  result,                   \* NoResult or the TokenMetrics returned
  failure,                  \* NoFailure, or the stage whose error ended the run
  \* ---- the hook useTokenData in a mounted component
  ui,                       \* state cells of the hook and of the page using it
  shown,                    \* the cells as the committed render read them
  flights,                  \* calls of fetchData waiting for fetchTokenData
  started,                  \* calls of fetchTokenData the hook has made
  refreshes                 \* calls of refreshData

clsVars  == <<args, ret, margs, mret>>
envVars  == <<chain, faulty>>
globVars == <<lastSuccessfulRpcByChain, blockCache>>
connVars == <<chainId, priceUsd, attempt, rpcUrls, idx, probes, backoffs, provider>>
descVars == <<tokenInfo, elapsed, marketData>>
scanVars == <<currentBlock, chunkStart, chunks, allEvents, abandoned>>
procVars == <<tasks, batchAt, evIdx, transfers, resolutions>>
laterVars == <<descVars, scanVars, procVars, result>>
hookVars == <<ui, shown, flights, started, refreshes>>
vars == <<args, ret, margs, mret, chain, faulty, lastSuccessfulRpcByChain, blockCache, pc, chainId, priceUsd,
          attempt, rpcUrls, idx, probes, backoffs, provider, tokenInfo, elapsed,
          marketData, currentBlock, chunkStart, chunks, allEvents, abandoned, tasks, batchAt,
          evIdx, transfers, resolutions, result, failure, ui, shown, flights, started,
          refreshes>>

-----------------------------------------------------------------------------
(* Bounds of the model *)

\* transfer amounts drawn for the classifiers: 0..MaxAmount
MaxAmount == 12
\* total supplies drawn for the classifiers: 0..MaxSupply
MaxSupply == 200

-----------------------------------------------------------------------------
(* Strings holding numbers, and ethers.BigNumber *)

\* a decimal string as produced by BigNumber.toString()
Str(n) == [kind |-> "num", n |-> n]
EmptyStr == [kind |-> "empty", n |-> 0]
\* a string BigNumber.from rejects
BadStr == [kind |-> "bad", n |-> 0]

\* JavaScript truthiness of a string: only "" is falsy
Truthy(s) == s.kind # "empty"
\* BigNumber.from(s) throws unless s is a number string
Parses(s) == s.kind = "num"

NoError == "none"

-----------------------------------------------------------------------------
(* Large-transfer classifiers *)

\* const threshold = 0.005, held as the fraction ThresholdNum / ThresholdDen
ThresholdNum == 5
ThresholdDen == 1000
\* valueBN.mul(100) ... / 100
PercentScale == 100

\* A classifier call: the boolean it returns and the exception its catch
\* block swallowed (NoError when none was thrown).
Returned(b) == [large |-> b, caught |-> NoError]
Caught(e)   == [large |-> FALSE, caught |-> e]

\* valueBN.mul(100).div(totalSupplyBN).toNumber() / 100 >= threshold, where
\* div truncates; BigNumber.div throws on a zero divisor.
PercentageAtLeastThreshold(v, ts) ==
  IF ts = 0 THEN Caught("division-by-zero")
  ELSE Returned(((v * PercentScale) \div ts) * ThresholdDen >= ThresholdNum * PercentScale)

isLargeTransferCheckNoZeroGuard(value, totalSupply) ==
  IF ~Truthy(value) \/ ~Truthy(totalSupply) THEN Returned(FALSE)
  ELSE IF ~Parses(value) \/ ~Parses(totalSupply) THEN Caught("invalid-bignumber")
  ELSE PercentageAtLeastThreshold(value.n, totalSupply.n)

isLargeTransferCheck(value, totalSupply) ==
  IF ~Truthy(value) \/ ~Truthy(totalSupply) THEN Returned(FALSE)
  ELSE IF ~Parses(value) \/ ~Parses(totalSupply) THEN Caught("invalid-bignumber")
  ELSE IF totalSupply.n = 0 THEN Returned(FALSE)
  ELSE PercentageAtLeastThreshold(value.n, totalSupply.n)

\* thresholdPercentage = 0.5; Math.floor(thresholdPercentage * 10) = 5; .div(1000)
UtilThresholdTenths == 5
UtilThresholdDen == 1000

\* exported isLargeTransfer of utils/tokenUtils
isLargeTransfer(value, totalSupply) ==
  IF ~Parses(value) \/ ~Parses(totalSupply) THEN Caught("invalid-bignumber")
  ELSE IF totalSupply.n = 0 THEN Returned(FALSE)
  ELSE Returned(value.n >= (totalSupply.n * UtilThresholdTenths) \div UtilThresholdDen)

NoRet == [check |-> Caught("not-called"), util |-> Caught("not-called")]

AmountStrings == {Str(n) : n \in 0..MaxAmount} \cup {EmptyStr, BadStr}
SupplyStrings == {Str(n) : n \in 0..MaxSupply} \cup {EmptyStr, BadStr}

\* one call of each classifier on the drawn arguments
Classify ==
  /\ ret = NoRet
  /\ ret' = [check |-> isLargeTransferCheck(args.value, args.totalSupply),
             util  |-> isLargeTransfer(args.value, args.totalSupply)]
  /\ UNCHANGED <<hookVars, args, margs, mret, envVars, globVars, pc, connVars, laterVars, failure>>

-----------------------------------------------------------------------------
(* Network configuration: constants/networks and the fallback table *)

NoUrl == "none"

\* SUPPORTED_CHAINS: chain id -> rpcUrl
SUPPORTED_CHAINS ==
  [c \in {1, 5, 11155111, 137, 80001, 56, 43114, 42161, 10} |->
     CASE c = 1        -> "https://mainnet.infura.io/v3"
       [] c = 5        -> "https://goerli.infura.io/v3"
       [] c = 11155111 -> "https://sepolia.infura.io/v3"
       [] c = 137      -> "https://polygon-mainnet.g.alchemy.com/v2/demo"
       [] c = 80001    -> "https://polygon-mumbai.g.alchemy.com/v2/demo"
       [] c = 56       -> "https://bsc-dataseed.binance.org"
       [] c = 43114    -> "https://api.avax.network/ext/bc/C/rpc"
       [] c = 42161    -> "https://arb1.arbitrum.io/rpc"
       [] OTHER        -> "https://mainnet.optimism.io"]

\* chain?.rpcUrl || 'https://rpc.ankr.com/eth'
getRpcUrl(c) ==
  IF c \in DOMAIN SUPPORTED_CHAINS THEN SUPPORTED_CHAINS[c] ELSE "https://rpc.ankr.com/eth"

\* fallbackUrls[chainId] || []
fallbackUrls(c) ==
  CASE c = 1 -> <<"https://rpc.ankr.com/eth", "https://eth.llamarpc.com",
                  "https://ethereum.publicnode.com", "https://1rpc.io/eth">>
    [] c = 5 -> <<"https://rpc.ankr.com/eth_goerli", "https://goerli.infura.io/v3">>
    [] c = 11155111 -> <<"https://rpc.sepolia.org", "https://sepolia.infura.io/v3">>
    [] OTHER -> <<>>

\* the chain ids a run is started with: three configured chains (with four,
\* two and no fallbacks) and one id that SUPPORTED_CHAINS does not hold
ChainIds == {1, 5, 137, 250}

Range(s) == {s[i] : i \in 1..Len(s)}

\* for (const url of fallbacks) if (!rpcUrls.includes(url)) rpcUrls.push(url)
RECURSIVE PushNew(_, _)
PushNew(list, urls) ==
  IF urls = <<>> THEN list
  ELSE PushNew(IF Head(urls) \in Range(list) THEN list ELSE Append(list, Head(urls)),
               Tail(urls))

\* the three sources of candidates one after the other, nothing removed
CandidateListWithDuplicates(c, last) ==
  (IF last[c] # NoUrl THEN <<last[c]>> ELSE <<>>) \o <<getRpcUrl(c)>> \o fallbackUrls(c)

\* the candidate list rpcUrls of tryConnectToNetwork
CandidateList(c, last) ==
  PushNew(IF last[c] # NoUrl THEN <<last[c]>> ELSE <<>>,
          <<getRpcUrl(c)>> \o fallbackUrls(c))

\* every url tryConnectToNetwork can ever probe for chain c
UrlsOf(c) == {getRpcUrl(c)} \cup Range(fallbackUrls(c))

-----------------------------------------------------------------------------
(* Remote calls and their timeouts *)

\* withTimeout(provider.getBlockNumber(), 5000, ...) of tryConnectToNetwork
ProbeTimeoutMs == 5000
\* withTimeout(getTokenInfo(...), 15000, ...)
InfoTimeoutMs == 15000
\* callWithTimeout(method, args, timeoutMs = 10000) of getTokenInfo
ReadTimeoutMs == 10000
\* withTimeout(provider.getBlockNumber(), 5000, ...) of fetchTokenData
HeadTimeoutMs == 5000
\* withTimeout(contract.queryFilter(...), 20000, ...)
ChunkTimeoutMs == 20000
\* getBlock('latest') of the estimation fallback is awaited bare
NoTimeout == 0

\* the timeout of the first attempt kept for the retries
BlockTimeoutMsFlat(a) == 10000

\* timeoutMs = attempt === 1 ? 10000 : 15000
BlockTimeoutMs(a) == IF a = 1 THEN 10000 ELSE 15000

\* the JSON-RPC methods behind the provider calls of the pipeline
RpcMethods == {"eth_blockNumber", "eth_chainId", "eth_getCode", "eth_call",
               "eth_getLogs", "eth_getBlockByNumber"}

\* withTimeout: the ways a call of method awaited under a timer of ms can
\* fail. A call awaited bare (ms = 0) settles only if the service answers.
Failures(ms, method) ==
  IF method \notin faulty THEN {}
  ELSE IF ms > 0 THEN {"error", "timeout"} ELSE {"error"}

-----------------------------------------------------------------------------
(* Connecting: fetchTokenData's retry loop around tryConnectToNetwork *)

\* const maxAttempts = 3
maxAttempts == 3

NoFailure == "none"

\* lastSuccessfulRpcByChain[chainId] = url
RecordSuccessPrimary(last, c, url) == [last EXCEPT ![c] = getRpcUrl(c)]

\* the url recorded for every network
RecordSuccessEverywhere(last, c, url) == [k \in DOMAIN last |-> url]

RecordSuccess(last, c, url) == [last EXCEPT ![c] = url]

\* catch of the retry loop: throw on the last attempt, otherwise wait and retry
AfterFailedAttemptOffByOne(a) == IF a > maxAttempts THEN "failed" ELSE "backoff"

AfterFailedAttempt(a) == IF a = maxAttempts THEN "failed" ELSE "backoff"

\* what the log of a call keeps of a probe
Probe(url, outcome) == [url |-> url, outcome |-> outcome]

\* tryConnectToNetwork runs up to its first await: the list is built and the
\* first candidate is probed
CallTryConnect ==
  /\ rpcUrls' = CandidateList(chainId', lastSuccessfulRpcByChain)
  /\ idx' = 0
  /\ probes' = Append(probes, <<>>)

\* the reference prices a run is started with: a negative one, none (0) or 2 USD
Prices == {-1, 0, 2}

\* fetchTokenData(tokenAddress, chainId, priceUsd) is called with the props
\* of the hook
FetchTokenData ==
  /\ pc = "idle"
  /\ UNCHANGED <<chainId, priceUsd>>
  /\ attempt' = 1
  /\ CallTryConnect
  /\ pc' = "probe"
  /\ UNCHANGED <<hookVars, clsVars, envVars, globVars, backoffs, provider, laterVars, failure>>

LogProbe(outcome) ==
  [probes EXCEPT ![Len(probes)] = Append(@, Probe(rpcUrls[idx + 1], outcome))]

\* withTimeout(provider.getBlockNumber(), 5000) resolves
ProbeOk ==
  /\ pc = "probe"
  /\ probes' = LogProbe("ok")
  /\ lastSuccessfulRpcByChain' =
       RecordSuccess(lastSuccessfulRpcByChain, chainId, rpcUrls[idx + 1])
  /\ provider' = rpcUrls[idx + 1]
  /\ pc' = "getNetwork"
  /\ UNCHANGED <<hookVars, clsVars, envVars, blockCache, chainId, priceUsd, attempt, rpcUrls, idx,
                 backoffs, laterVars, failure>>

\* the probe rejects or its timeout fires
ProbeFail ==
  /\ pc = "probe"
  /\ \E kind \in Failures(ProbeTimeoutMs, "eth_blockNumber") :
       /\ probes' = LogProbe("failed")
       /\ IF idx = Len(rpcUrls) - 1
            THEN \* isLast: break, tryConnectToNetwork throws
                 /\ pc' = AfterFailedAttempt(attempt)
                 /\ failure' = IF pc' = "failed" THEN "connecting" ELSE failure
                 /\ idx' = idx
            ELSE /\ idx' = idx + 1
                 /\ UNCHANGED <<pc, failure>>
  /\ UNCHANGED <<hookVars, clsVars, envVars, globVars, chainId, priceUsd, attempt, rpcUrls, backoffs,
                 provider, laterVars>>

\* the 1000 ms wait ends and the next attempt calls tryConnectToNetwork
BackoffDone ==
  /\ pc = "backoff"
  /\ backoffs' = backoffs + 1
  /\ attempt' = attempt + 1
  /\ UNCHANGED <<chainId, priceUsd>>
  /\ CallTryConnect
  /\ pc' = "probe"
  /\ UNCHANGED <<hookVars, clsVars, envVars, globVars, provider, laterVars, failure>>

-----------------------------------------------------------------------------
(* FetchingDescriptor: getTokenInfo under the 15000 ms timeout *)

\* supply reported by the token contract (raw units)
TokenSupply == 1000

\* what the ERC-20 contract at tokenAddress answers
TokenContract ==
  [name |-> "Token", symbol |-> "TKN", decimals |-> 2, totalSupply |-> Str(TokenSupply)]

\* let name = "Unknown Token"; let symbol = "???"; let decimals = 18;
\* let totalSupply = "0"; let isERC20Compliant = false
DefaultInfo ==
  [name |-> "Unknown Token", symbol |-> "???", decimals |-> 18,
   totalSupply |-> Str(0), isERC20Compliant |-> FALSE]

\* Boolean(name && symbol && decimals !== undefined && totalSupply)
Compliant(info) == info.name # "" /\ info.symbol # "" /\ Truthy(info.totalSupply)

\* checkERC20Compliance: false for an address without code, else
\* hasName && hasSymbol && hasDecimals && hasTotalSupply, each flag cleared by
\* the read that threw
checkERC20Compliance(hasCode, succeeded) ==
  hasCode /\ \A field \in {"name", "symbol", "decimals", "totalSupply"} : field \in succeeded

\* getTokenInfo rejects, or the 15000 ms timer fires first: fetchTokenData
\* rethrows "Failed to retrieve token information"
DescriptorFails ==
  /\ pc' = "failed"
  /\ failure' = "descriptor"
  /\ UNCHANGED <<descVars>>

\* await provider.getNetwork()
GetNetwork ==
  /\ pc = "getNetwork"
  /\ \/ pc' = "getCode" /\ UNCHANGED <<descVars, failure>>
     \/ \E kind \in Failures(InfoTimeoutMs, "eth_chainId") : DescriptorFails
  /\ UNCHANGED <<hookVars, clsVars, envVars, globVars, connVars, scanVars, procVars, result>>

\* await provider.getCode(tokenAddress); '0x' throws "Address is not a contract"
GetCode ==
  /\ pc = "getCode"
  /\ \/ /\ chain.hasCode
        /\ pc' = "name"
        /\ tokenInfo' = DefaultInfo
        /\ UNCHANGED <<elapsed, marketData, failure>>
     \/ ~chain.hasCode /\ DescriptorFails
     \/ \E kind \in Failures(InfoTimeoutMs, "eth_getCode") : DescriptorFails
  /\ UNCHANGED <<hookVars, clsVars, envVars, globVars, connVars, scanVars, procVars, result>>

ReadFields == <<"name", "symbol", "decimals", "totalSupply">>
FieldAt(p) == CHOOSE i \in 1..Len(ReadFields) : ReadFields[i] = p

\* the local variable a read leaves behind: the value read, or the default
\* when callWithTimeout rejected
AfterRead(info, field, ok) ==
  IF ok THEN [info EXCEPT ![field] = TokenContract[field]] ELSE info

\* calculateMarketCap / calculateFullyDilutedCap: formatUnits(totalSupply,
\* decimals) * price, held as the decimal fraction num / 10^exp
calculateMarketCap(totalSupply, decimals, price) ==
  IF Parses(totalSupply) THEN [num |-> totalSupply.n * price, exp |-> decimals]
  ELSE [num |-> 0, exp |-> 0]

\* const supplyToUse = maxSupply || totalSupply, called without maxSupply
calculateFullyDilutedCap(totalSupply, decimals, price) ==
  calculateMarketCap(totalSupply, decimals, price)

\* a / b of two numbers, kept as the fraction; a zero divisor gives NaN or
\* Infinity, as the division of JavaScript numbers does
JsDiv(a, b) ==
  IF b = 0 THEN [kind |-> IF a = 0 THEN "NaN" ELSE "Infinity", num |-> a, den |-> 0]
  ELSE [kind |-> "num", num |-> a, den |-> b]

\* the number 0
Zero == [kind |-> "num", num |-> 0, den |-> 1]

\* the percent difference computed without the test of the market cap
calculateMarketCapDifferenceUnguarded(marketCap, fullyDilutedCap) ==
  [difference |-> [num |-> fullyDilutedCap.num - marketCap.num, exp |-> marketCap.exp],
   percentDifference |-> JsDiv((fullyDilutedCap.num - marketCap.num) * 100, marketCap.num)]

\* calculateMarketCapDifference on two figures of one exponent
calculateMarketCapDifference(marketCap, fullyDilutedCap) ==
  [difference |-> [num |-> fullyDilutedCap.num - marketCap.num, exp |-> marketCap.exp],
   percentDifference |->
     IF marketCap.num > 0
       THEN JsDiv((fullyDilutedCap.num - marketCap.num) * 100, marketCap.num)
       ELSE Zero]

NoMarketData == [present |-> FALSE]
NoOffMarket == [present |-> FALSE]

\* the market data computed without the test of the price
MarketDataOfAnyPrice(info, price) ==
  LET mc == calculateMarketCap(info.totalSupply, info.decimals, price)
      fdc == calculateFullyDilutedCap(info.totalSupply, info.decimals, price)
      d == calculateMarketCapDifference(mc, fdc)
  IN [present |-> TRUE, price |-> price, marketCap |-> mc, fullyDilutedCap |-> fdc,
      marketCapDifference |-> d.difference,
      marketCapDifferencePercent |-> d.percentDifference,
      offMarket |-> NoOffMarket]

\* if (priceUsd !== undefined && priceUsd > 0) { marketData = {...} }
MarketDataOf(info, price) ==
  IF price > 0
    THEN LET mc  == calculateMarketCap(info.totalSupply, info.decimals, price)
             fdc == calculateFullyDilutedCap(info.totalSupply, info.decimals, price)
             d   == calculateMarketCapDifference(mc, fdc)
         IN [present |-> TRUE, price |-> price, marketCap |-> mc, fullyDilutedCap |-> fdc,
             marketCapDifference |-> d.difference,
             marketCapDifferencePercent |-> d.percentDifference,
             offMarket |-> NoOffMarket]
    ELSE NoMarketData

\* one of the four reads settles; after the last one getTokenInfo returns,
\* the market data is computed and the head block number is requested
ReadField ==
  /\ pc \in Range(ReadFields)
  /\ \/ \E outcome \in {"ok"} \cup Failures(ReadTimeoutMs, "eth_call") :
          /\ outcome = "timeout" => elapsed + ReadTimeoutMs < InfoTimeoutMs
          /\ elapsed' = IF outcome = "timeout" THEN elapsed + ReadTimeoutMs ELSE elapsed
          /\ LET info == AfterRead(tokenInfo, pc, outcome = "ok") IN
               IF FieldAt(pc) < Len(ReadFields)
                 THEN /\ tokenInfo' = info
                      /\ pc' = ReadFields[FieldAt(pc) + 1]
                      /\ UNCHANGED marketData
                 ELSE /\ tokenInfo' = [info EXCEPT !.isERC20Compliant = Compliant(info)]
                      /\ marketData' = MarketDataOf(tokenInfo', priceUsd)
                      /\ pc' = "blockNumber"
          /\ UNCHANGED failure
     \/ \* the 15000 ms timer of fetchTokenData fires during the read
        \E kind \in Failures(InfoTimeoutMs, "eth_call") \ {"error"} : DescriptorFails
  /\ UNCHANGED <<hookVars, clsVars, envVars, globVars, connVars, scanVars, procVars, result>>

-----------------------------------------------------------------------------
(* DeterminingRange and RetrievingTransfers: the chunk loop *)

\* const blocksPerDay = 6500; const daysToLookBack = 30
blocksPerDay == 6500
daysToLookBack == 30
blockRange == blocksPerDay * daysToLookBack
\* const chunkSize = 10000
chunkSize == 10000
\* if (allEvents.length > 2000) break
EventCap == 2000

Min(a, b) == IF a < b THEN a ELSE b
Max(a, b) == IF a > b THEN a ELSE b

\* const fromBlock = Math.max(0, currentBlock - blockRange)
FromBlock(cur) == Max(0, cur - blockRange)

\* loop condition of for (chunkStart = fromBlock; chunkStart < currentBlock; ...)
InLoop(start, cur) == start < cur

\* const chunkEnd = Math.min(currentBlock, chunkStart + chunkSize - 1)
ChunkEnd(start, cur) == Min(cur, start + chunkSize - 1)

\* contract.queryFilter(filter, from, to): the Transfer logs of the range, in order
queryFilter(from, to) ==
  SelectSeq(chain.logs, LAMBDA e : from <= e.blockNumber /\ e.blockNumber <= to)

\* the start the loop goes on with after the catch block of a failed chunk
\* had the catch block left the loop
AfterChunkFailureAbort(start, cur) == cur

\* the catch block only logs: the loop goes on with chunkStart += chunkSize
AfterChunkFailure(start, cur) == start + chunkSize

\* the loop is entered for chunkStart (the query is issued) or left
LoopAt(start, cur) ==
  IF InLoop(start, cur)
    THEN /\ chunkStart' = start
         /\ chunks' = Append(chunks, [from |-> start, to |-> ChunkEnd(start, cur)])
         /\ pc' = "chunk"
    ELSE /\ chunkStart' = start
         /\ chunks' = chunks
         /\ pc' = "scanned"

\* withTimeout(provider.getBlockNumber(), 5000) settles; on success the range
\* is computed and the first chunk queried
GetBlockNumber ==
  /\ pc = "blockNumber"
  /\ \/ /\ currentBlock' = chain.head
        /\ LoopAt(FromBlock(chain.head), chain.head)
        /\ UNCHANGED <<failure>>
     \/ \E kind \in Failures(HeadTimeoutMs, "eth_blockNumber") :
          /\ pc' = "failed"
          /\ failure' = "range"
          /\ UNCHANGED <<currentBlock, chunkStart, chunks>>
  /\ UNCHANGED <<hookVars, clsVars, envVars, globVars, connVars, descVars, allEvents, abandoned,
                 procVars, result>>

\* a scan that never stops early
CapNeverReached(events) == FALSE

\* if (allEvents.length > 2000) break
CapReached(events) == Len(events) > EventCap

\* the chunk query resolves: its events are appended and the cap is checked
ChunkOk ==
  /\ pc = "chunk"
  /\ allEvents' = allEvents \o queryFilter(chunkStart, ChunkEnd(chunkStart, currentBlock))
  /\ IF CapReached(allEvents')
       THEN pc' = "scanned" /\ UNCHANGED <<chunkStart, chunks>>
       ELSE LoopAt(chunkStart + chunkSize, currentBlock)
  /\ UNCHANGED <<hookVars, clsVars, envVars, globVars, connVars, descVars, currentBlock, abandoned, procVars,
                 result, failure>>

\* most abandoned chunk queries the service holds at a time
MaxAbandoned == 2

\* withTimeout rejects when its timer fires but the promise it raced goes on:
\* the query stays with the service; a rejected query is over
AfterQueryFailure(pending, kind) == IF kind = "timeout" THEN pending + 1 ELSE pending

\* the service answers a query the run gave up on; Promise.race has settled,
\* the answer is dropped
LateAnswer ==
  /\ abandoned > 0
  /\ abandoned' = abandoned - 1
  /\ UNCHANGED <<hookVars, clsVars, envVars, globVars, pc, connVars, descVars, currentBlock, chunkStart,
                 chunks, allEvents, procVars, result, failure>>

\* the chunk query rejects or times out: logged, next chunk
ChunkFail ==
  /\ pc = "chunk"
  /\ \E kind \in Failures(ChunkTimeoutMs, "eth_getLogs") :
       /\ kind = "timeout" => abandoned < MaxAbandoned
       /\ abandoned' = AfterQueryFailure(abandoned, kind)
       /\ LoopAt(AfterChunkFailure(chunkStart, currentBlock), currentBlock)
  /\ UNCHANGED <<hookVars, clsVars, envVars, globVars, connVars, descVars, currentBlock, allEvents,
                 procVars, result, failure>>

-----------------------------------------------------------------------------
(* ResolvingBlocks: getBlockWithRetries and processTransferEvents *)

\* maxRetries = 3
maxRetries == 3
\* const SECONDS_PER_BLOCK = 13
SECONDS_PER_BLOCK == 13
\* const batchSize = 20
batchSize == 20

\* timestamp of block n on the chain, and the wall clock Date.now() / 1000
BlockTimestamp(n) == 1500000000 + 12 * n
WallClock == BlockTimestamp(chain.head) + 30

NoBlock == [number |-> -1, timestamp |-> -1, hash |-> "none"]

\* provider.getBlock(n) resolved
RealBlock(n) == [number |-> n, timestamp |-> BlockTimestamp(n), hash |-> "0xblock"]

\* fallbackBlock; head is the block getBlock('latest') resolved with
EstimatedFromHead(n, head) ==
  [number |-> n,
   timestamp |-> head.timestamp - ((head.number - n) * SECONDS_PER_BLOCK),
   hash |-> "estimated"]

\* the rejection of getBlock('latest') leaves getBlockWithRetries uncaught
RejectedWithHeadError(n) == [number |-> n, timestamp |-> -1, hash |-> "rejected"]

\* fallbackBlock when getBlock('latest') rejected
EstimatedFromClock(n) ==
  [number |-> n,
   timestamp |-> WallClock - (1000 * SECONDS_PER_BLOCK),
   hash |-> "estimated"]

\* blockCache.set(blockNumber, block)
CachePut(cache, n, block) ==
  [k \in DOMAIN cache \cup {n} |-> IF k = n THEN block ELSE cache[k]]

\* the fallback block is returned without being stored
CacheKeep(cache, n, block) == cache

\* a getBlockWithRetries call up to its first await: a cached block is
\* returned at once, otherwise attempt 1 is issued
StartCall(n, cache) ==
  IF n \in DOMAIN cache
    THEN [phase |-> "done", attempt |-> 0, block |-> cache[n], calls |-> 0]
    ELSE [phase |-> "fetch", attempt |-> 1, block |-> NoBlock, calls |-> 1]

Settled(n, t) == [number |-> n, block |-> t.block, calls |-> t.calls]

RECURSIVE SortedSeq(_)
SortedSeq(S) ==
  IF S = {} THEN <<>>
  ELSE LET m == CHOOSE x \in S : \A y \in S : x <= y IN <<m>> \o SortedSeq(S \ {m})

\* Object.keys(eventsByBlock).map(Number): the distinct block numbers, ascending
BlockNumbersOf(events) == SortedSeq({events[i].blockNumber : i \in 1..Len(events)})

\* blockNumbers.slice(i, i + batchSize)
Batch(bns, i) == SubSeq(bns, i + 1, Min(i + batchSize, Len(bns)))

\* batch.map(blockNumber => getBlockWithRetries(provider, blockNumber))
StartBatch(i) ==
  LET b == Batch(BlockNumbersOf(allEvents), i) IN
    /\ batchAt' = i
    /\ tasks' = [n \in Range(b) |-> StartCall(n, blockCache)]
    /\ resolutions' = resolutions \o
         SelectSeq([j \in 1..Len(b) |-> Settled(b[j], StartCall(b[j], blockCache))],
                   LAMBDA r : r.calls = 0)

\* processTransferEvents(provider, allEvents, tokenInfo) is called: events are
\* grouped by block and the first batch of blocks is pre-fetched
ProcessTransferEvents ==
  /\ pc = "scanned"
  /\ Len(allEvents) > 0
  /\ StartBatch(0)
  /\ evIdx' = 1
  /\ transfers' = <<>>
  /\ pc' = "prefetch"
  /\ UNCHANGED <<hookVars, clsVars, envVars, globVars, connVars, descVars, scanVars, result, failure>>

Running(n) == pc \in {"prefetch", "resolve"} /\ n \in DOMAIN tasks

\* a call settles with a block; the cache is left as the settling branch leaves it
Finish(n, block, cache) ==
  /\ tasks' = [tasks EXCEPT ![n] = [@ EXCEPT !.phase = "done", !.block = block]]
  /\ resolutions' = Append(resolutions, Settled(n, tasks'[n]))
  /\ blockCache' = cache

\* attempt of block n resolves: the block is cached and returned
FetchOk ==
  \E n \in DOMAIN tasks :
    /\ Running(n)
    /\ tasks[n].phase = "fetch"
    /\ Finish(n, RealBlock(n), CachePut(blockCache, n, RealBlock(n)))
    /\ UNCHANGED <<hookVars, clsVars, envVars, lastSuccessfulRpcByChain, pc, connVars, descVars,
                   scanVars, batchAt, evIdx, transfers, result, failure>>

\* attempt of block n rejects or times out: next attempt, or after the last
\* one the estimation fallback asks for the head block
FetchFail ==
  \E n \in DOMAIN tasks :
    /\ Running(n)
    /\ tasks[n].phase = "fetch"
    /\ \E kind \in Failures(BlockTimeoutMs(tasks[n].attempt), "eth_getBlockByNumber") :
         tasks' = [tasks EXCEPT ![n] =
                     IF @.attempt < maxRetries
                       THEN [@ EXCEPT !.attempt = @ + 1, !.calls = @ + 1]
                       ELSE [@ EXCEPT !.phase = "latest", !.calls = @ + 1]]
    /\ UNCHANGED <<hookVars, clsVars, envVars, globVars, pc, connVars, descVars, scanVars, batchAt,
                   evIdx, transfers, resolutions, result, failure>>

\* getBlock('latest') resolves: the timestamp is extrapolated from the head
LatestOk ==
  \E n \in DOMAIN tasks :
    /\ Running(n)
    /\ tasks[n].phase = "latest"
    /\ Finish(n, EstimatedFromHead(n, RealBlock(chain.head)),
              CacheKeep(blockCache, n, EstimatedFromHead(n, RealBlock(chain.head))))
    /\ UNCHANGED <<hookVars, clsVars, envVars, lastSuccessfulRpcByChain, pc, connVars, descVars,
                   scanVars, batchAt, evIdx, transfers, result, failure>>

\* getBlock('latest') rejects: the timestamp is taken from the wall clock
LatestFail ==
  \E n \in DOMAIN tasks :
    /\ Running(n)
    /\ tasks[n].phase = "latest"
    /\ \E kind \in Failures(NoTimeout, "eth_getBlockByNumber") :
         Finish(n, EstimatedFromClock(n), CacheKeep(blockCache, n, EstimatedFromClock(n)))
    /\ UNCHANGED <<hookVars, clsVars, envVars, lastSuccessfulRpcByChain, pc, connVars, descVars,
                   scanVars, batchAt, evIdx, transfers, result, failure>>

NoTasks == <<>>

\* Promise.allSettled of the batch resolves: next batch, or the conversion loop
BatchDone ==
  /\ pc = "prefetch"
  /\ \A n \in DOMAIN tasks : tasks[n].phase = "done"
  /\ IF batchAt + batchSize < Len(BlockNumbersOf(allEvents))
       THEN StartBatch(batchAt + batchSize) /\ UNCHANGED pc
       ELSE /\ pc' = "events"
            /\ tasks' = NoTasks
            /\ UNCHANGED <<batchAt, resolutions>>
  /\ UNCHANGED <<hookVars, clsVars, envVars, globVars, connVars, descVars, scanVars, evIdx,
                 transfers, result, failure>>

\* the TokenTransfer built from an event and its block
Transfer(e, block) ==
  [transactionHash |-> e.tx,
   value |-> Str(e.value),
   timestamp |-> block.timestamp,
   isLargeTransfer |-> isLargeTransferCheck(Str(e.value), tokenInfo.totalSupply).large]

\* one iteration of for (const event of events): events with fewer than 3
\* arguments are skipped, the others call getBlockWithRetries
ConvertEvent ==
  /\ pc = "events"
  /\ evIdx <= Len(allEvents)
  /\ LET e == allEvents[evIdx]
         call == StartCall(e.blockNumber, blockCache) IN
       IF e.nargs < 3
         THEN /\ evIdx' = evIdx + 1
              /\ UNCHANGED <<pc, tasks, transfers, resolutions>>
         ELSE IF call.phase = "done"
           THEN /\ transfers' = Append(transfers, Transfer(e, call.block))
                /\ resolutions' = Append(resolutions, Settled(e.blockNumber, call))
                /\ evIdx' = evIdx + 1
                /\ UNCHANGED <<pc, tasks>>
           ELSE /\ tasks' = [n \in {e.blockNumber} |-> call]
                /\ pc' = "resolve"
                /\ UNCHANGED <<evIdx, transfers, resolutions>>
  /\ UNCHANGED <<hookVars, clsVars, envVars, globVars, connVars, descVars, scanVars, batchAt,
                 result, failure>>

\* the awaited getBlockWithRetries call of the iteration returned
ResolveDone ==
  /\ pc = "resolve"
  /\ LET e == allEvents[evIdx] IN
       /\ tasks[e.blockNumber].phase = "done"
       /\ transfers' = Append(transfers, Transfer(e, tasks[e.blockNumber].block))
  /\ evIdx' = evIdx + 1
  /\ tasks' = NoTasks
  /\ pc' = "events"
  /\ UNCHANGED <<hookVars, clsVars, envVars, globVars, connVars, descVars, scanVars, batchAt,
                 resolutions, result, failure>>

\* processTransferEvents returns the transfers
ProcessReturn ==
  /\ pc = "events"
  /\ evIdx > Len(allEvents)
  /\ pc' = "processed"
  /\ UNCHANGED <<hookVars, clsVars, envVars, globVars, connVars, descVars, scanVars, procVars,
                 result, failure>>

-----------------------------------------------------------------------------
(* ClassifyingAndAggregating: sort, filter, off-market figures, result *)

\* the transfers left in the order processTransferEvents built them
SortByTimestampSkipped(ts) == ts

\* processedTransfers.sort((a, b) => b.timestamp - a.timestamp): stable, descending
RECURSIVE SortByTimestamp(_)
SortByTimestamp(ts) ==
  IF ts = <<>> THEN <<>>
  ELSE LET t == ts[Len(ts)]
           sorted == SortByTimestamp(SubSeq(ts, 1, Len(ts) - 1))
           k == Cardinality({i \in 1..Len(sorted) : sorted[i].timestamp >= t.timestamp})
       IN SubSeq(sorted, 1, k) \o <<t>> \o SubSeq(sorted, k + 1, Len(sorted))

\* every transfer taken for a large one
LargeOfUnfiltered(ts) == ts

\* processedTransfers.filter(t => t.isLargeTransfer)
LargeOf(ts) == SelectSeq(ts, LAMBDA t : t.isLargeTransfer)

RECURSIVE Volume(_, _)
Volume(ts, S) ==
  IF S = {} THEN 0
  ELSE LET i == CHOOSE x \in S : TRUE IN ts[i].value.n + Volume(ts, S \ {i})

\* analyzeOffMarketSales: below is the set of large transfers that
\* isBelowMarketPrice (Math.random) put below the price; volumes and market
\* cap are in raw units times price, the scale 10^decimals cancels in the
\* percentages
analyzeOffMarketSales(sales, info, price, below) ==
  IF Len(sales) = 0 \/ price <= 0
    THEN [present |-> TRUE, abovePrice |-> Zero, belowPrice |-> Zero,
          percentage |-> Zero, volumeUSD |-> [num |-> 0, exp |-> 0]]
    ELSE LET large == LargeOf(sales)
             all == 1..Len(large)
             marketCap == calculateMarketCap(info.totalSupply, info.decimals, price).num
         IN [present |-> TRUE,
             abovePrice |-> JsDiv(Volume(large, all \ below) * price * 100, marketCap),
             belowPrice |-> JsDiv(Volume(large, all \cap below) * price * 100, marketCap),
             percentage |-> JsDiv(Volume(large, all) * 100, info.totalSupply.n),
             volumeUSD |-> [num |-> Volume(large, all) * price, exp |-> info.decimals]]

\* one call of calculateMarketCapDifference on the drawn figures
CallMarketCapDifference ==
  /\ mret.difference.called = FALSE
  /\ mret' = [mret EXCEPT !.difference =
                [called |-> TRUE,
                 value |-> calculateMarketCapDifference(margs.marketCap, margs.fullyDilutedCap)]]
  /\ UNCHANGED <<hookVars, args, ret, margs, envVars, globVars, pc, connVars, laterVars, failure>>

\* one call of analyzeOffMarketSales on the drawn transfers, descriptor and
\* price, for one outcome of the random price heuristic
CallAnalyzeOffMarketSales ==
  /\ mret.sales.called = FALSE
  /\ \E below \in SUBSET (1..Len(margs.transfers)) :
       mret' = [mret EXCEPT !.sales =
                  [called |-> TRUE,
                   value |-> analyzeOffMarketSales(margs.transfers, margs.tokenInfo,
                                                   margs.price, below)]]
  /\ UNCHANGED <<hookVars, args, ret, margs, envVars, globVars, pc, connVars, laterVars, failure>>

NoResult == [present |-> FALSE]

\* the transfers are sorted and filtered, the off-market figures are added to
\* the market data and the TokenMetrics is returned
FinishRun ==
  /\ \/ pc = "scanned" /\ Len(allEvents) = 0
     \/ pc = "processed"
  /\ LET recent == IF pc = "processed" THEN SortByTimestamp(transfers) ELSE <<>>
         large == LargeOf(recent)
     IN /\ IF marketData.present /\ priceUsd > 0 /\ Len(large) > 0
             THEN \E below \in SUBSET (1..Len(large)) :
                    marketData' = [marketData EXCEPT !.offMarket =
                       analyzeOffMarketSales(large, tokenInfo, priceUsd, below)]
             ELSE UNCHANGED marketData
        /\ result' = [present |-> TRUE, tokenInfo |-> tokenInfo, chainId |-> chainId,
                      marketData |-> marketData', recentTransfers |-> recent,
                      largeTransfers |-> large]
  /\ pc' = "done"
  /\ UNCHANGED <<hookVars, clsVars, envVars, globVars, connVars, tokenInfo, elapsed, scanVars,
                 procVars, failure>>

-----------------------------------------------------------------------------
(* The hook useTokenData and the analyzer page that uses it *)

\* most runs of fetchTokenData one mounted hook starts, most calls of refreshData
MaxFetches == 4

\* tokenAddress: nothing entered, not an address, the address of a token
Addresses == {"", "0xnot", "0xToken"}

\* tokenAddress && ethers.utils.isAddress(tokenAddress)
isAddress(a) == a = "0xToken"

\* useState<TokenMetrics | null>(null); the metrics of a run are named by the run
NoMetrics == 0

\* the cells before the component is mounted
Unmounted ==
  [mounted |-> FALSE, page |-> FALSE, tokenAddress |-> "", loading |-> FALSE, error |-> "null",
   tokenMetrics |-> NoMetrics, hasAnalyzed |-> FALSE, pageLoading |-> FALSE,
   pageMetrics |-> NoMetrics]

NoHook ==
  /\ ui = Unmounted
  /\ shown = Unmounted
  /\ flights = {}
  /\ started = 0
  /\ refreshes = 0

\* skipInitialFetch = false by default; the analyzer passes hasAnalyzed
skipInitialFetch(r) == r.page /\ r.hasAnalyzed

\* useCallback(..., [tokenAddress, chainId, priceUsd, tokenMetrics]) with chainId
\* and priceUsd fixed: the render r holds another fetchData than the render prev
NewFetchData(prev, r) ==
  \/ ~prev.mounted
  \/ r.tokenAddress # prev.tokenAddress
  \/ r.tokenMetrics # prev.tokenMetrics

\* useEffect(..., [tokenAddress, skipInitialFetch, fetchData]) runs after the render r
FetchEffectRuns(prev, r) ==
  NewFetchData(prev, r) \/ skipInitialFetch(r) # skipInitialFetch(prev)

\* the fetchData of the render r, called when the cells are `cells`, up to its await
fetchData(r, cells) ==
  IF ~isAddress(r.tokenAddress)
    THEN /\ ui' = [cells EXCEPT !.error = "Please enter a valid token address"]
         /\ UNCHANGED <<flights, started>>
    ELSE /\ started < MaxFetches
         /\ ui' = [cells EXCEPT !.loading = TRUE, !.error = "null"]
         /\ started' = started + 1
         /\ flights' = flights \cup {[id |-> started + 1, seen |-> r.tokenMetrics]}

\* React commits a render of the changed cells and runs the effects whose
\* dependencies changed, each with the values the render read: the hook's
\* initial-fetch effect, then the page's effects that copy the hook's cells and
\* set hasAnalyzed
Commit ==
  /\ ui # shown
  /\ LET r == ui
         syncs == r.page /\ (\/ ~shown.mounted
                             \/ r.loading # shown.loading
                             \/ r.error # shown.error
                             \/ r.tokenMetrics # shown.tokenMetrics)
         marks == r.page /\ (\/ ~shown.mounted
                             \/ r.pageMetrics # shown.pageMetrics
                             \/ r.pageLoading # shown.pageLoading)
         cells == [r EXCEPT
                     !.pageLoading = IF syncs THEN r.loading ELSE @,
                     !.pageMetrics = IF syncs /\ r.tokenMetrics # NoMetrics /\ ~r.loading
                                       THEN r.tokenMetrics ELSE @,
                     !.hasAnalyzed = IF marks /\ r.pageMetrics # NoMetrics /\ ~r.pageLoading
                                       THEN TRUE ELSE @]
     IN /\ shown' = r
        /\ IF FetchEffectRuns(shown, r) /\ isAddress(r.tokenAddress) /\ ~skipInitialFetch(r)
             THEN fetchData(r, cells)
             ELSE ui' = cells /\ UNCHANGED <<flights, started>>
  /\ UNCHANGED <<refreshes, clsVars, envVars, globVars, pc, connVars, laterVars, failure>>

\* refreshData of the committed render is called; the page offers it on the
\* results it shows
Refresh ==
  /\ ui = shown
  /\ refreshes < MaxFetches
  /\ ui.page => ui.hasAnalyzed /\ ui.pageMetrics # NoMetrics /\ ~ui.pageLoading
  /\ fetchData(shown, ui)
  /\ refreshes' = refreshes + 1
  /\ UNCHANGED <<shown, clsVars, envVars, globVars, pc, connVars, laterVars, failure>>

\* fetchTokenData resolves for the call f of fetchData
FetchDataOk(f) ==
  /\ ui = shown
  /\ f \in flights
  /\ ui' = [ui EXCEPT !.tokenMetrics = f.id, !.loading = FALSE]
  /\ flights' = flights \ {f}
  /\ UNCHANGED <<shown, started, refreshes, clsVars, envVars, globVars, pc, connVars, laterVars,
                 failure>>

\* fetchTokenData rejects for the call f of fetchData, whose closure read the
\* tokenMetrics of its render
FetchDataFail(f) ==
  /\ ui = shown
  /\ f \in flights
  /\ ui' = [ui EXCEPT !.error = "Failed to fetch token data",
                      !.tokenMetrics = IF f.seen = NoMetrics THEN NoMetrics ELSE @,
                      !.loading = FALSE]
  /\ flights' = flights \ {f}
  /\ UNCHANGED <<shown, started, refreshes, clsVars, envVars, globVars, pc, connVars, laterVars,
                 failure>>

-----------------------------------------------------------------------------
(* The chains the data service can hold *)

\* most Transfer logs on the chain
MaxLogs == 2

\* head block numbers: a new chain, heads within the first chunks, and one
\* older than the look-back range
Heads == {0, 10000, 25000, 200000}

\* blocks that can hold a Transfer log, and the amounts transferred
LogBlocks(head) == {b \in {3, 12000, 24000} : b <= head}
LogValues == {1, 10}

LogsUpTo(head) ==
  UNION {
    { [i \in 1..len |-> [blockNumber |-> l[i].blockNumber, value |-> l[i].value,
                         nargs |-> 3, tx |-> i]] :
        l \in { m \in [1..len -> [blockNumber : LogBlocks(head), value : LogValues]] :
                  \A i \in 1..(len - 1) : m[i].blockNumber <= m[i + 1].blockNumber } }
    : len \in 0..MaxLogs }

Chains ==
  UNION {{[head |-> h, logs |-> l, hasCode |-> c] : l \in LogsUpTo(h), c \in BOOLEAN} :
         h \in Heads}

QuietChain == [head |-> 0, logs |-> <<>>, hasCode |-> TRUE]

\* most JSON-RPC methods the service fails on in one scenario
MaxFaulty == 1

FaultSets == {S \in SUBSET RpcMethods : Cardinality(S) <= MaxFaulty}

-----------------------------------------------------------------------------
(* Specifications *)

\* figures calculateMarketCapDifference is called with
MarketFigures == {[num |-> n, exp |-> 0] : n \in {-1, 0, 3, 100, 150}}

\* most transfers analyzeOffMarketSales is called with
MaxSales == 2

\* transfer lists analyzeOffMarketSales is called with
SalesLists ==
  UNION {[1..len -> [transactionHash : {0}, value : {Str(10)}, timestamp : {0},
                     isLargeTransfer : BOOLEAN]] : len \in 0..MaxSales}

NoMarketArgs ==
  [marketCap |-> [num |-> 0, exp |-> 0], fullyDilutedCap |-> [num |-> 0, exp |-> 0],
   transfers |-> <<>>, tokenInfo |-> DefaultInfo, price |-> 0]

NoMarketRet ==
  [difference |-> [called |-> FALSE], sales |-> [called |-> FALSE]]

NoHarness ==
  /\ args = [value |-> EmptyStr, totalSupply |-> EmptyStr]
  /\ ret = NoRet
  /\ margs = NoMarketArgs
  /\ mret = NoMarketRet

IdleRun ==
  /\ pc = "idle"
  /\ attempt = 0
  /\ rpcUrls = <<>>
  /\ idx = 0
  /\ probes = <<>>
  /\ backoffs = 0
  /\ provider = NoUrl
  /\ tokenInfo = DefaultInfo
  /\ elapsed = 0
  /\ marketData = NoMarketData
  /\ currentBlock = 0
  /\ chunkStart = 0
  /\ chunks = <<>>
  /\ allEvents = <<>>
  /\ abandoned = 0
  /\ tasks = NoTasks
  /\ batchAt = 0
  /\ evIdx = 1
  /\ transfers = <<>>
  /\ resolutions = <<>>
  /\ result = NoResult
  /\ failure = NoFailure

\* let lastSuccessfulRpcByChain = {}; const blockCache = new Map()
FreshProcess ==
  /\ lastSuccessfulRpcByChain = [c \in ChainIds |-> NoUrl]
  /\ blockCache = <<>>

\* one run of fetchTokenData in a fresh process
Init ==
  /\ NoHarness
  /\ chain \in Chains
  /\ faulty \in FaultSets
  /\ FreshProcess
  /\ chainId \in {1, 250}
  /\ priceUsd \in Prices
  /\ IdleRun
  /\ NoHook

Next ==
  \/ FetchTokenData \/ ProbeOk \/ ProbeFail \/ BackoffDone
  \/ GetNetwork \/ GetCode \/ ReadField
  \/ GetBlockNumber \/ ChunkOk \/ ChunkFail
  \/ ProcessTransferEvents \/ FetchOk \/ FetchFail \/ LatestOk \/ LatestFail
  \/ BatchDone \/ ConvertEvent \/ ResolveDone \/ ProcessReturn
  \/ FinishRun \/ LateAnswer

Spec == Init /\ [][Next]_vars

\* the classifiers on drawn arguments
InitClassify ==
  /\ args \in [value : AmountStrings, totalSupply : SupplyStrings]
  /\ ret = NoRet
  /\ margs = NoMarketArgs
  /\ mret = NoMarketRet
  /\ chain = QuietChain
  /\ faulty = {}
  /\ FreshProcess
  /\ chainId = 1
  /\ priceUsd = 0
  /\ IdleRun
  /\ NoHook

SpecClassify == InitClassify /\ [][Classify]_vars

\* the market-metrics functions on drawn arguments
InitMarket ==
  /\ args = [value |-> EmptyStr, totalSupply |-> EmptyStr]
  /\ ret = NoRet
  /\ margs \in [marketCap : MarketFigures, fullyDilutedCap : MarketFigures,
                transfers : SalesLists,
                tokenInfo : {[DefaultInfo EXCEPT !.totalSupply = Str(n), !.decimals = 2] :
                               n \in {0, TokenSupply}},
                price : Prices]
  /\ mret = NoMarketRet
  /\ chain = QuietChain
  /\ faulty = {}
  /\ FreshProcess
  /\ chainId = 1
  /\ priceUsd = 0
  /\ IdleRun
  /\ NoHook

NextMarket == CallMarketCapDifference \/ CallAnalyzeOffMarketSales

SpecMarket == InitMarket /\ [][NextMarket]_vars

\* the connecting stage of one run, in a process whose endpoint map holds
\* what earlier runs can have left in it
InitConnect ==
  /\ NoHarness
  /\ chain = QuietChain
  /\ faulty = {"eth_blockNumber"}
  /\ lastSuccessfulRpcByChain \in
       {m \in [ChainIds -> {NoUrl} \cup UNION {UrlsOf(c) : c \in ChainIds}] :
          \A c \in ChainIds : m[c] \in {NoUrl} \cup UrlsOf(c)}
  /\ blockCache = <<>>
  /\ chainId \in ChainIds
  /\ priceUsd \in Prices
  /\ IdleRun
  /\ NoHook

NextConnect == FetchTokenData \/ ProbeOk \/ ProbeFail \/ BackoffDone

SpecConnect == InitConnect /\ [][NextConnect]_vars

\* the transfer stages of a run against a service that fails only on block
\* fetches, in a process whose block cache holds what earlier runs left in it
InitProcess ==
  /\ NoHarness
  /\ chain \in {c \in Chains : c.head = 25000 /\ c.hasCode /\ Len(c.logs) >= 1}
  /\ faulty = {"eth_getBlockByNumber"}
  /\ lastSuccessfulRpcByChain = [c \in ChainIds |-> NoUrl]
  /\ blockCache \in {[n \in S |-> RealBlock(n)] : S \in SUBSET LogBlocks(chain.head)}
  /\ chainId = 1
  /\ priceUsd \in Prices
  /\ IdleRun
  /\ NoHook

NextProcess ==
  \/ FetchTokenData \/ ProbeOk \/ GetNetwork \/ GetCode \/ ReadField
  \/ GetBlockNumber \/ ChunkOk
  \/ ProcessTransferEvents \/ FetchOk \/ FetchFail \/ LatestOk \/ LatestFail
  \/ BatchDone \/ ConvertEvent \/ ResolveDone \/ ProcessReturn
  \/ FinishRun

SpecProcess == InitProcess /\ [][NextProcess]_vars

\* a run against a service that fails only on log queries
InitScan ==
  /\ NoHarness
  /\ chain \in {c \in Chains : c.hasCode}
  /\ faulty = {"eth_getLogs"}
  /\ FreshProcess
  /\ chainId = 1
  /\ priceUsd = 0
  /\ IdleRun
  /\ NoHook

NextScan ==
  \/ FetchTokenData \/ ProbeOk \/ GetNetwork \/ GetCode \/ ReadField
  \/ GetBlockNumber \/ ChunkOk \/ ChunkFail
  \/ ProcessTransferEvents \/ FetchOk \/ BatchDone \/ ConvertEvent \/ ProcessReturn
  \/ FinishRun \/ LateAnswer

SpecScan == InitScan /\ [][NextScan]_vars

\* k Transfer logs in block 3 followed by m in block 12000
BusyLogs(k, m) ==
  [i \in 1..(k + m) |-> [blockNumber |-> IF i <= k THEN 3 ELSE 12000, value |-> 1,
                        nargs |-> 3, tx |-> i]]

\* chains of a busy token: the first chunk holds one log less than the event
\* cap, as many, or one more
BusyChains ==
  {[head |-> 25000, logs |-> BusyLogs(k, m), hasCode |-> TRUE] :
     k \in (EventCap - 1)..(EventCap + 1), m \in 0..1}

\* the scan of a run over a busy token, against a service that fails only on
\* log queries
InitCap ==
  /\ NoHarness
  /\ chain \in BusyChains
  /\ faulty = {"eth_getLogs"}
  /\ FreshProcess
  /\ chainId \in {1, 5, 137}
  /\ priceUsd \in Prices
  /\ IdleRun
  /\ NoHook

NextCap ==
  \/ FetchTokenData \/ ProbeOk \/ GetNetwork \/ GetCode \/ ReadField
  \/ GetBlockNumber \/ ChunkOk \/ ChunkFail \/ LateAnswer

SpecCap == InitCap /\ [][NextCap]_vars

-----------------------------------------------------------------------------
(* Classifier claims, under SpecClassify *)

Called == ret # NoRet
NumericArgs == Parses(args.value) /\ Parses(args.totalSupply)

\* C1: for every amount >= 0 and every totalSupply > 0, isLargeTransferCheck
\* returns true exactly when floor(amount * 1000 / totalSupply) >= 5, that is
\* when the transfer is at least 0.5% of the total supply.
C1_LargeIffHalfPercent ==
  (Called /\ NumericArgs /\ args.totalSupply.n > 0) =>
    (ret.check.large = ((args.value.n * 1000) \div args.totalSupply.n >= 5))

\* C2: against a total supply of 0 both classifiers return false for every
\* amount, and neither attempts the division by zero.
C2_ZeroSupplyIsNeverLarge ==
  (Called /\ args.totalSupply = Str(0)) =>
    /\ ret.check.large = FALSE /\ ret.check.caught # "division-by-zero"
    /\ ret.util.large = FALSE /\ ret.util.caught # "division-by-zero"

\* C2 witness: both classifiers have run on a positive amount and supply 0
C2_Witness ==
  /\ Called
  /\ args.totalSupply = Str(0)
  /\ args.value = Str(MaxAmount)
  /\ ret.check = Returned(FALSE)
  /\ ret.util = Returned(FALSE)

-----------------------------------------------------------------------------
(* Connection claims, under SpecConnect *)

AllFailed(log) == \A j \in 1..Len(log) : log[j].outcome = "failed"
Exhausted(log) == Len(log) = Len(rpcUrls) /\ AllFailed(log)
Urls(log) == [j \in 1..Len(log) |-> log[j].url]

\* C7: with candidates [A, B, C] of which A and B fail and C succeeds,
\* tryConnectToNetwork probes A, B, C in that order, each once, nothing after
\* C, and records C as the last-successful endpoint of the network.
C7_ProbesInOrderRecordsWinner ==
  \A k \in 1..Len(probes) :
    LET log == probes[k] IN
      /\ Len(log) <= Len(rpcUrls)
      /\ Urls(log) = SubSeq(rpcUrls, 1, Len(log))
      /\ (/\ Len(log) >= 3
          /\ log[1].outcome = "failed"
          /\ log[2].outcome = "failed"
          /\ log[3].outcome = "ok")
         => /\ Len(log) = 3
            /\ k = Len(probes)
            /\ Cardinality(Range(Urls(log))) = 3
            /\ lastSuccessfulRpcByChain[chainId] = log[3].url
            /\ provider = log[3].url

\* C7 witness: a call whose third candidate answered after two failures
C7_Witness ==
  /\ pc = "getNetwork"
  /\ Len(probes) >= 1
  /\ Len(probes[Len(probes)]) = 3
  /\ probes[Len(probes)][3].outcome = "ok"
  /\ lastSuccessfulRpcByChain[chainId] = rpcUrls[3]

\* C8: a network identifier that maps to no known network fails the
\* connecting stage at once with a configuration error, and no endpoint is
\* probed for it.
C8_UnknownNetworkIsRejected ==
  (pc # "idle" /\ chainId \notin DOMAIN SUPPORTED_CHAINS) =>
    /\ pc = "failed"
    /\ failure = "configuration"
    /\ rpcUrls = <<>>
    /\ \A k \in 1..Len(probes) : probes[k] = <<>>

\* C9: fetchTokenData calls tryConnectToNetwork at most 3 times, makes no
\* call after one that succeeded, waits the backoff once after every failed
\* call but the last, and fails the stage exactly when all 3 calls failed.
C9_ThreeAttemptsThenFail ==
  /\ Len(probes) <= 3
  /\ \A k \in 1..(Len(probes) - 1) : Exhausted(probes[k])
  /\ pc # "idle" => backoffs = Len(probes) - 1
  /\ pc = "getNetwork" => probes[Len(probes)][Len(probes[Len(probes)])].outcome = "ok"
  /\ (pc = "failed" /\ failure = "connecting")
       <=> (Len(probes) = 3 /\ \A k \in 1..3 : Exhausted(probes[k]))

\* C9 witness: the run failed after three exhausted calls and two waits
C9_Witness ==
  /\ pc = "failed"
  /\ failure = "connecting"
  /\ Len(probes) = 3
  /\ backoffs = 2

-----------------------------------------------------------------------------
(* Pipeline claims, under Spec *)

ScanEnded == pc \in {"scanned", "prefetch", "resolve", "events", "processed", "done"}

\* the chunks cover every block of [a, b] exactly once and stay inside it
Tiles(cs, a, b) ==
  /\ \A blk \in a..b :
       Cardinality({i \in 1..Len(cs) : cs[i].from <= blk /\ blk <= cs[i].to}) = 1
  /\ \A i \in 1..Len(cs) : a <= cs[i].from /\ cs[i].from <= cs[i].to /\ cs[i].to <= b
  /\ Len(cs) >= 1
  /\ cs[Len(cs)].to = b

\* C3: the chunks generated by the scan loop of fetchTokenData exactly tile
\* the range [fromBlock, currentBlock]: every block lies in exactly one chunk,
\* no chunk reaches outside the range, and the last chunk ends at currentBlock.
C3_ChunksTileTheRange ==
  (ScanEnded /\ Len(allEvents) <= EventCap) =>
    Tiles(chunks, FromBlock(currentBlock), currentBlock)

\* the remote calls a state has outstanding, each with the timer it runs under
InFlight ==
  (IF pc = "probe" THEN {[call |-> "getBlockNumber", timeoutMs |-> ProbeTimeoutMs]} ELSE {})
  \cup (IF pc \in {"getNetwork", "getCode"}
          THEN {[call |-> pc, timeoutMs |-> InfoTimeoutMs]} ELSE {})
  \cup (IF pc \in Range(ReadFields) THEN {[call |-> pc, timeoutMs |-> ReadTimeoutMs]} ELSE {})
  \cup (IF pc = "blockNumber"
          THEN {[call |-> "getBlockNumber", timeoutMs |-> HeadTimeoutMs]} ELSE {})
  \cup (IF pc = "chunk" THEN {[call |-> "queryFilter", timeoutMs |-> ChunkTimeoutMs]} ELSE {})
  \cup {[call |-> "getBlock", timeoutMs |-> BlockTimeoutMs(tasks[n].attempt)] :
          n \in {m \in DOMAIN tasks : tasks[m].phase = "fetch"}}
  \cup {[call |-> "getBlock(latest)", timeoutMs |-> NoTimeout] :
          n \in {m \in DOMAIN tasks : tasks[m].phase = "latest"}}

\* C6: every remote call of the pipeline runs under a timeout, so that no
\* await of fetchTokenData waits on the service without bound.
C6_EveryRemoteCallHasATimeout ==
  \A c \in InFlight : c.timeoutMs > 0

\* C10: a run fails only from the connecting or the descriptor stage; once
\* the descriptor is fetched no later stage ends the run in failure.
C10_FailsOnlyBeforeTheDescriptor ==
  pc = "failed" => failure \in {"connecting", "descriptor"}

-----------------------------------------------------------------------------
(* Block resolution claims, under SpecProcess *)

\* C4: resolving a block number a second time returns the result of the
\* first resolution, real or estimated, and makes no remote call.
C4_SecondResolutionIsIdentical ==
  \A i \in 1..Len(resolutions) : \A j \in 1..Len(resolutions) :
    (i < j /\ resolutions[i].number = resolutions[j].number) =>
      /\ resolutions[j].block = resolutions[i].block
      /\ resolutions[j].calls = 0

HasTimestamp(n, block) ==
  /\ block.number = n
  /\ block.timestamp > 0
  /\ block.hash \in {"0xblock", "estimated"}

\* C5: getBlockWithRetries never rejects: whatever fetches of the block and of
\* the head block failed, a settled call returned a block of that number
\* carrying a timestamp.
C5_ResolverAlwaysReturnsABlock ==
  /\ \A i \in 1..Len(resolutions) :
       HasTimestamp(resolutions[i].number, resolutions[i].block)
  /\ \A n \in DOMAIN tasks :
       /\ tasks[n].phase \in {"fetch", "latest", "done"}
       /\ tasks[n].phase = "done" => HasTimestamp(n, tasks[n].block)
  /\ \A i \in 1..Len(transfers) : transfers[i].timestamp > 0

\* C5 witness: a call settled after all three fetches and the head fetch failed
C5_Witness ==
  \E i \in 1..Len(resolutions) :
    /\ resolutions[i].calls = maxRetries + 1
    /\ resolutions[i].block = EstimatedFromClock(resolutions[i].number)

-----------------------------------------------------------------------------
(* Descriptor claims, under Spec *)

\* C11: once the address is known to hold a contract, no failure of the reads
\* name/symbol/decimals/totalSupply fails the descriptor stage: a read step
\* leaves the field at the value read or at its default and goes on to the
\* next step; the stage fails when the address holds no contract code.
C11_ReadFailuresNeverFailTheStage ==
  [][/\ pc \in Range(ReadFields) =>
          /\ pc' # "failed"
          /\ tokenInfo'[pc] \in {TokenContract[pc], DefaultInfo[pc]}
     /\ (pc = "getCode" /\ ~chain.hasCode) => (pc' = "failed" /\ failure' = "descriptor")]_vars

-----------------------------------------------------------------------------
(* Chunk failure claims, under SpecScan *)

\* the chunks the loop of fetchTokenData goes through from start when none is
\* skipped
RECURSIVE ChunkStarts(_, _)
ChunkStarts(start, cur) ==
  IF InLoop(start, cur) THEN <<start>> \o ChunkStarts(start + chunkSize, cur) ELSE <<>>

\* C12: a failed chunk query never aborts the scan: the step of a failed
\* query adds no event, raises no failure and goes on to the next chunk, the
\* step of a successful one appends the chunk's events, so that a finished
\* scan has queried every chunk of the range and the run ends with a result.
C12_ChunkFailureIsSkipped ==
  /\ [][/\ ChunkFail =>
             /\ allEvents' = allEvents
             /\ failure' = NoFailure
             /\ LoopAt(chunkStart + chunkSize, currentBlock)
        /\ ChunkOk =>
             allEvents' = allEvents \o queryFilter(chunkStart, ChunkEnd(chunkStart, currentBlock))
       ]_vars
  /\ [](ScanEnded =>
          /\ [i \in 1..Len(chunks) |-> chunks[i].from]
               = ChunkStarts(FromBlock(currentBlock), currentBlock)
          /\ failure = NoFailure)

\* C12 witness: a finished run over three chunks of which the second and the
\* third hold a log: the second query failed, and the result holds the logs
\* of the first and the third
C12_Witness ==
  /\ pc = "done"
  /\ Len(chunks) = 3
  /\ \A i \in 2..3 : queryFilter(chunks[i].from, chunks[i].to) # <<>>
  /\ allEvents = queryFilter(chunks[1].from, chunks[1].to)
                   \o queryFilter(chunks[3].from, chunks[3].to)
  /\ Len(result.recentTransfers) = Len(allEvents)

-----------------------------------------------------------------------------
(* Timestamp claims, under SpecProcess *)

\* the block of the log a transfer record was built from
BlockOf(t) == chain.logs[t.transactionHash].blockNumber

\* C13: every event of a processed run yields a Transfer record, also when
\* all three fetches of its block failed, and the timestamps of the records
\* follow block order: of two records from blocks m < n the one from m
\* carries a timestamp no later than the one from n, fetched or estimated.
C13_TimestampsFollowBlockOrder ==
  /\ pc \in {"processed", "done"} =>
       Len(transfers) = Len(SelectSeq(allEvents, LAMBDA e : e.nargs >= 3))
  /\ \A i \in 1..Len(transfers) : \A j \in 1..Len(transfers) :
       BlockOf(transfers[i]) < BlockOf(transfers[j]) =>
         transfers[i].timestamp <= transfers[j].timestamp

-----------------------------------------------------------------------------
(* Result claims, under SpecProcess *)

\* positions of the transfers of ts flagged as large
Flagged(ts) == {i \in 1..Len(ts) : ts[i].isLargeTransfer}

\* the k-th smallest position of a set of positions
Nth(F, k) == CHOOSE i \in F : Cardinality({j \in F : j <= i}) = k

\* C14: in every returned TokenMetrics largeTransfers is a subsequence of
\* recentTransfers in the same relative order, made of exactly the transfers
\* whose isLargeTransfer flag is true.
C14_LargeIsFlaggedSubsequence ==
  result.present =>
    LET recent == result.recentTransfers
        large == result.largeTransfers
        F == Flagged(recent)
    IN /\ Len(large) = Cardinality(F)
       /\ \A k \in 1..Len(large) : large[k] = recent[Nth(F, k)]

\* C14 witness: a result of two transfers of which only the second is large
C14_Witness ==
  /\ result.present
  /\ Len(result.recentTransfers) = 2
  /\ Flagged(result.recentTransfers) = {2}
  /\ result.largeTransfers = <<result.recentTransfers[2]>>

\* C15: in every returned TokenMetrics recentTransfers is ordered by
\* timestamp descending.
C15_RecentSortedDescending ==
  result.present =>
    \A i \in 1..Len(result.recentTransfers) : \A j \in 1..Len(result.recentTransfers) :
      i < j => result.recentTransfers[i].timestamp >= result.recentTransfers[j].timestamp

\* C15 witness: a result of two transfers that the sort had to swap
C15_Witness ==
  /\ result.present
  /\ Len(transfers) = 2
  /\ transfers[1].timestamp < transfers[2].timestamp
  /\ result.recentTransfers = <<transfers[2], transfers[1]>>

\* C16: the marketData of a result is absent exactly when the reference price
\* is not positive, and with a positive price it carries the price, the
\* market cap, the fully diluted cap and the dilution delta and percent of
\* the fetched descriptor.
C16_MarketDataIffPositivePrice ==
  result.present =>
    LET md == result.marketData
        info == result.tokenInfo
    IN /\ md.present <=> priceUsd > 0
       /\ md.present =>
            /\ md.price = priceUsd
            /\ md.marketCap = [num |-> info.totalSupply.n * priceUsd, exp |-> info.decimals]
            /\ md.fullyDilutedCap = md.marketCap
            /\ md.marketCapDifference.num = md.fullyDilutedCap.num - md.marketCap.num
            /\ md.marketCapDifferencePercent.kind = "num"
            /\ md.marketCapDifferencePercent.num = 0

\* C16 witness: a result for a positive price, with its market data
C16_Witness ==
  /\ result.present
  /\ priceUsd = 2
  /\ result.marketData.present
  /\ result.marketData.marketCap.num = 2 * TokenSupply

-----------------------------------------------------------------------------
(* Market-metrics claims, under SpecMarket *)

\* the fraction p is the number num / den
IsRatio(p, num, den) == p.kind = "num" /\ p.den # 0 /\ p.num * den = num * p.den

\* C17: calculateMarketCapDifference returns difference = fullyDilutedCap -
\* marketCap, percentDifference = difference / marketCap * 100 when marketCap
\* is positive and 0 when it is not; (100, 150) gives {50, 50} and (0, 150)
\* gives {150, 0}.
C17_MarketCapDifference ==
  mret.difference.called =>
    LET mc == margs.marketCap.num
        fdc == margs.fullyDilutedCap.num
        r == mret.difference.value
    IN /\ r.difference.num = fdc - mc
       /\ mc > 0 => IsRatio(r.percentDifference, (fdc - mc) * 100, mc)
       /\ mc <= 0 => IsRatio(r.percentDifference, 0, 1)
       /\ (mc = 100 /\ fdc = 150) =>
            r.difference.num = 50 /\ IsRatio(r.percentDifference, 50, 1)
       /\ (mc = 0 /\ fdc = 150) =>
            r.difference.num = 150 /\ IsRatio(r.percentDifference, 0, 1)

\* C17 witness: the call on (0, 150) returned {150, 0}
C17_Witness ==
  /\ mret.difference.called
  /\ margs.marketCap.num = 0
  /\ margs.fullyDilutedCap.num = 150
  /\ mret.difference.value.difference.num = 150
  /\ mret.difference.value.percentDifference = Zero

\* C18: every market-metrics computation guards its denominators: with a
\* market cap that is not positive calculateMarketCapDifference returns the
\* percent 0, and with a total supply of 0 (market cap 0) or a price that is
\* not positive analyzeOffMarketSales returns zeros, none of them dividing.
C18_DenominatorsAreGuarded ==
  /\ (mret.difference.called /\ margs.marketCap.num <= 0) =>
       mret.difference.value.percentDifference = Zero
  /\ (mret.sales.called /\ (margs.tokenInfo.totalSupply.n = 0 \/ margs.price <= 0)) =>
       LET r == mret.sales.value
       IN /\ IsRatio(r.abovePrice, 0, 1)
          /\ IsRatio(r.belowPrice, 0, 1)
          /\ IsRatio(r.percentage, 0, 1)

-----------------------------------------------------------------------------
(* Candidate list and endpoint map claims, under SpecConnect *)

\* position of the first occurrence of url u in the list
FirstPos(list, u) == CHOOSE i \in 1..Len(list) : list[i] = u /\ \A j \in 1..(i - 1) : list[j] # u

\* last-successful endpoint of the network if recorded, then the primary
\* endpoint, then the configured fallbacks
PriorityOrder ==
  (IF lastSuccessfulRpcByChain[chainId] # NoUrl
     THEN <<lastSuccessfulRpcByChain[chainId]>> ELSE <<>>)
  \o <<getRpcUrl(chainId)>> \o fallbackUrls(chainId)

\* C19: the candidate list of a tryConnectToNetwork call holds the
\* last-successful endpoint of the network if one is recorded, then the
\* primary endpoint, then the fallbacks: every one of these urls once, at the
\* rank of its first occurrence in that order.
C19_CandidateListOrder ==
  pc = "probe" =>
    /\ Range(rpcUrls) = Range(PriorityOrder)
    /\ Cardinality(Range(rpcUrls)) = Len(rpcUrls)
    /\ \A i \in 1..Len(rpcUrls) : \A j \in 1..Len(rpcUrls) :
         i < j => FirstPos(PriorityOrder, rpcUrls[i]) < FirstPos(PriorityOrder, rpcUrls[j])

\* C19 witness: the recorded endpoint is one of the fallbacks, so the list is
\* shorter than its three sources and starts with it, the primary second
C19_Witness ==
  /\ pc = "probe"
  /\ lastSuccessfulRpcByChain[chainId] \in Range(fallbackUrls(chainId))
  /\ lastSuccessfulRpcByChain[chainId] # getRpcUrl(chainId)
  /\ Len(rpcUrls) = Len(PriorityOrder) - 1
  /\ rpcUrls[1] = lastSuccessfulRpcByChain[chainId]
  /\ rpcUrls[2] = getRpcUrl(chainId)

\* C20: the last-successful-endpoint map changes only in the step of a
\* successful probe, and then only in the entry of the requested network; a
\* failed probe, a call in which every candidate failed and a backoff leave
\* the whole map as it was.
C20_MapChangesOnlyOnSuccess ==
  [][lastSuccessfulRpcByChain' # lastSuccessfulRpcByChain =>
       /\ pc = "probe"
       /\ pc' = "getNetwork"
       /\ lastSuccessfulRpcByChain'[chainId] = provider'
       /\ \A c \in DOMAIN lastSuccessfulRpcByChain \ {chainId} :
            lastSuccessfulRpcByChain'[c] = lastSuccessfulRpcByChain[c]]_vars

\* C20 witness: a probe succeeded on another candidate than the recorded one
\* while another network has an entry, after a call that failed on every candidate
C20_Witness ==
  /\ pc = "getNetwork"
  /\ Len(probes) = 2
  /\ Exhausted(probes[1])
  /\ provider # rpcUrls[1]
  /\ lastSuccessfulRpcByChain[chainId] = provider
  /\ \E c \in DOMAIN lastSuccessfulRpcByChain \ {chainId} :
       lastSuccessfulRpcByChain[c] \notin {NoUrl, provider}

-----------------------------------------------------------------------------
(* Retry and estimation claims, under SpecProcess *)

\* timeouts of the attempts, in order
AttemptTimeouts == <<10000, 15000, 15000>>

\* what a settled call of block n must look like
SettledAsClaimed(n, block, calls) ==
  /\ block.hash = "0xblock" =>
       /\ calls <= 3
       /\ n \in DOMAIN blockCache
       /\ blockCache[n] = block
  /\ block.hash = "estimated" => calls = 4

\* C21: on a cache miss getBlockWithRetries makes at most 3 fetch attempts,
\* under timeouts of 10, 15 and 15 seconds in that order; an attempt that
\* succeeds caches the block and returns it with no further attempt, and the
\* estimation fallback is entered only after 3 failed attempts.
C21_ThreeAttemptsThenEstimate ==
  /\ \A n \in DOMAIN tasks :
       LET t == tasks[n] IN
         /\ t.phase = "fetch" =>
              /\ t.attempt \in 1..3
              /\ t.calls = t.attempt
              /\ [call |-> "getBlock", timeoutMs |-> AttemptTimeouts[t.attempt]] \in InFlight
         /\ t.phase = "latest" => (t.attempt = 3 /\ t.calls = 4)
         /\ (t.phase = "done" /\ t.calls > 0) => SettledAsClaimed(n, t.block, t.calls)
  /\ \A i \in 1..Len(resolutions) :
       resolutions[i].calls > 0 =>
         SettledAsClaimed(resolutions[i].number, resolutions[i].block, resolutions[i].calls)

\* C21 witness: a call whose third attempt succeeded after two failures
C21_Witness ==
  \E i \in 1..Len(resolutions) :
    /\ resolutions[i].calls = 3
    /\ resolutions[i].block = RealBlock(resolutions[i].number)
    /\ blockCache[resolutions[i].number] = resolutions[i].block

\* the linear extrapolation of the timestamp of block n from a head
Extrapolated(headTimestamp, headNumber, n) ==
  headTimestamp - (headNumber - n) * SECONDS_PER_BLOCK

\* C22: an estimated timestamp of block n is the linear extrapolation
\* head.timestamp - (head.number - n) * 13 from the head block, or, when the
\* head block could not be fetched, the same extrapolation in n from the
\* wall-clock time as the head's timestamp.
C22_EstimateIsLinearExtrapolation ==
  \A i \in 1..Len(resolutions) :
    LET r == resolutions[i] IN
      r.block.hash = "estimated" =>
        r.block.timestamp \in
          {Extrapolated(BlockTimestamp(chain.head), chain.head, r.number),
           Extrapolated(WallClock, chain.head, r.number)}

-----------------------------------------------------------------------------
(* Event cap claims, under SpecCap *)

\* C23: once the accumulator of collected events has reached the cap of 2000
\* after a successful chunk, no further chunk is queried.
C23_NoQueryOnceCapReached ==
  pc = "chunk" => Len(allEvents) < EventCap

\* C23, amended: once the accumulator holds more than 2000 events after a
\* successful chunk, no further chunk is queried, also when part of the range
\* is unscanned, and the collected events do not change any more; with
\* exactly 2000 events the scan goes on.
C23_NoQueryOnceCapExceeded ==
  /\ [](pc = "chunk" => Len(allEvents) <= EventCap)
  /\ [][Len(allEvents) > EventCap =>
          (allEvents' = allEvents /\ chunks' = chunks /\ pc' # "chunk")]_vars

\* C23 witness: the first chunk left 2001 events, the scan ended after it
\* although the second chunk holds a log
C23_Witness ==
  /\ pc = "scanned"
  /\ Len(allEvents) = EventCap + 1
  /\ Len(chunks) = 1
  /\ Len(chain.logs) = EventCap + 2
  /\ chunks[1].to < currentBlock

-----------------------------------------------------------------------------
(* Chunk order claims, under SpecScan *)

\* the chunk queries of the run the data service is working on
OutstandingQueries == (IF pc = "chunk" THEN 1 ELSE 0) + abandoned

\* C24: the chunks of a run are queried in strictly ascending block order and
\* one after the other: at most one chunk query of the run is outstanding at
\* the data service at any time, also after a chunk timed out.
C24_OneChunkQueryAtATime ==
  /\ \A i \in 1..Len(chunks) : \A j \in 1..Len(chunks) :
       i < j => chunks[i].to < chunks[j].from
  /\ OutstandingQueries <= 1

\* the hook mounted with fixed inputs, alone or in the analyzer page after a
\* search, over runs of fetchTokenData that resolve or reject
InitHook ==
  /\ NoHarness
  /\ chain = QuietChain
  /\ faulty = {}
  /\ FreshProcess
  /\ chainId = 1
  /\ priceUsd = 0
  /\ IdleRun
  /\ ui \in {[Unmounted EXCEPT !.mounted = TRUE, !.page = p, !.tokenAddress = a] :
               p \in BOOLEAN, a \in Addresses}
  /\ shown = Unmounted
  /\ flights = {}
  /\ started = 0
  /\ refreshes = 0

NextHook ==
  \/ Commit \/ Refresh
  \/ \E f \in flights : FetchDataOk(f)
  \/ \E f \in flights : FetchDataFail(f)

SpecHook == InitHook /\ [][NextHook]_vars

-----------------------------------------------------------------------------
(* Hook claims, under SpecHook *)

\* C25: for fixed inputs the hook starts the pipeline once for the initial
\* fetch and once per call of refreshData; a fetch that completes never starts
\* another one.
C25_OneStartPerRequest == started <= 1 + refreshes

\* C26: when a fetch fails, the tokenMetrics of an earlier successful fetch
\* stay as they are, error becomes the failure message and loading becomes
\* false; with an empty or invalid address fetchData sets the error, leaves
\* loading alone and starts no pipeline.
C26_FailureKeepsEarlierMetrics ==
  /\ [][\A f \in flights :
          FetchDataFail(f) => /\ ui'.tokenMetrics = ui.tokenMetrics
                              /\ ui'.error = "Failed to fetch token data"
                              /\ ~ui'.loading]_vars
  /\ [][Refresh /\ ~isAddress(ui.tokenAddress) =>
          /\ ui'.error = "Please enter a valid token address"
          /\ ui'.loading = ui.loading
          /\ started' = started /\ flights' = flights]_vars

\* C27: when fetches overlap, loading stays true until no fetch is in flight,
\* and the tokenMetrics of a fetch are never replaced by those of a fetch that
\* started before it, so that the fetch started last is the one finally stored.
C27_LastStartedFetchWins ==
  /\ [](flights # {} => ui.loading)
  /\ [][\A f \in flights :
          FetchDataOk(f) /\ ui.tokenMetrics > f.id => ui'.tokenMetrics = ui.tokenMetrics]_vars

-----------------------------------------------------------------------------
(* Classifier agreement, under SpecClassify *)

\* C28: for every amount >= 0 and every totalSupply >= 0 the classifier of the
\* pipeline, isLargeTransferCheck, and the exported isLargeTransfer return the
\* same boolean.
C28_ClassifiersAgree ==
  (Called /\ NumericArgs) => ret.check.large = ret.util.large

-----------------------------------------------------------------------------
(* Per-block timestamp claims, under SpecProcess *)

\* C29: in the transfers of one call of processTransferEvents two events of
\* the same block carry the same timestamp, whether the block was fetched or
\* estimated, and the transfers keep the order of the events, leaving out only
\* the events with fewer than 3 arguments.
C29_OneTimestampPerBlock ==
  /\ \A i \in 1..Len(transfers) : \A j \in 1..Len(transfers) :
       BlockOf(transfers[i]) = BlockOf(transfers[j]) =>
         transfers[i].timestamp = transfers[j].timestamp
  /\ \A i \in 1..Len(transfers) : \A j \in 1..Len(transfers) :
       i < j => transfers[i].transactionHash < transfers[j].transactionHash
  /\ pc \in {"processed", "done"} =>
       \A k \in 1..Len(allEvents) :
         allEvents[k].nargs >= 3 =>
           \E i \in 1..Len(transfers) : transfers[i].transactionHash = allEvents[k].tx

-----------------------------------------------------------------------------
(* Compliance claims, under Spec *)

\* the reads of the descriptor that returned the contract's answer
ReadsSucceeded == {field \in Range(ReadFields) : tokenInfo[field] = TokenContract[field]}

\* C30: the descriptor of getTokenInfo has isERC20Compliant true only if the
\* four reads name, symbol, decimals and totalSupply all succeeded, as
\* checkERC20Compliance decides it: a descriptor holding a default after a
\* failed read is not compliant.
C30_CompliantOnlyIfAllReadsSucceeded ==
  tokenInfo.isERC20Compliant => checkERC20Compliance(chain.hasCode, ReadsSucceeded)

====
